---- MODULE Spec2Model ----
(***************************************************************************)
(* open-project: a project launcher.  The stored entry list, its glob      *)
(* expansion with deduplication (entry.rs, main.rs), the parser of the     *)
(* `zellij ls -n` listing (session.rs, main.rs) and the session decision   *)
(* of the Open command (main.rs).                                          *)
(*                                                                         *)
(* Text (String, OsString, PathBuf components) is a tuple of one-character *)
(* strings; a path is a tuple of components.                               *)
(***************************************************************************)
EXTENDS Naturals, Sequences, FiniteSets

VARIABLES
    entries,    \* the stored entry list (projects.json), a VecDeque<Entry>
    exists,     \* the filesystem: the set of concrete paths present on disk
    last,       \* the command line of the last run of the program
    picker,     \* the items send_expanded_entries has sent to the picker
    result,     \* the value generate_expanded_entries returned
    exit,       \* how the last run ended: "ok", "err" (an Err from main), "exit1"
    selected,   \* Open: the expanded entry the picker returned
    listing,    \* Open: the sessions the multiplexer has, as it lists them
    stdout,     \* Open: the captured standard output of `zellij ls -n`
    sessions,   \* Open: the parsed Vec<ZellijSession>
    command,    \* Open: the wezterm command being built
    cmds,       \* Open: the external commands run so far, in order
    pc          \* Open: the position in the Open arm of main

vars == <<entries, exists, last, picker, result, exit,
          selected, listing, stdout, sessions, command, cmds, pc>>

storeVars == <<entries, exists, last, picker, result, exit>>
openVars == <<selected, listing, stdout, sessions, command, cmds, pc>>

Range(s) == {s[i] : i \in 1..Len(s)}

(***************************************************************************)
(* Bounds                                                                  *)
(***************************************************************************)
MaxEntries == 3
MaxLines == 2

(***************************************************************************)
(* Path components and paths of the model's filesystem                     *)
(***************************************************************************)
c_p == <<"p">>
c_a == <<"a">>
c_b == <<"b">>
c_star == <<"*">>
c_open == <<"[">>          \* an unclosed character class: no valid pattern
c_tilde == <<"~">>
c_raw == <<"0xFF">>        \* a byte that is no UTF-8
c_dotdot == <<".", ".">>
c_work == <<"w", "o", "r", "k">>

HomeDir == <<c_p>>

\* the files a glob walk can meet, in the alphabetical order glob yields them
FileOrder == << <<c_p, c_a>>, <<c_p, c_b>> >>
Files == Range(FileOrder)

(***************************************************************************)
(* Entry (entry.rs / main.rs)                                              *)
(***************************************************************************)
JustPath(path) == [kind |-> "JustPath", path |-> path, layout |-> <<>>]

PathWithlayout(path, layout) ==
    [kind |-> "PathWithlayout", path |-> path, layout |-> layout]

get_path(entry) == entry.path

with_path(entry, path) ==
    IF entry.kind = "JustPath"
    THEN JustPath(path)
    ELSE PathWithlayout(path, entry.layout)

(***************************************************************************)
(* Path::to_str, shellexpand::tilde and glob::glob                          *)
(***************************************************************************)
\* Path::to_str: None when a component is not UTF-8
to_str(path) ==
    [some |-> \A i \in 1..Len(path) : path[i] # c_raw, val |-> path]

\* shellexpand::tilde: a leading ~ becomes the home directory
tilde(path) ==
    IF Len(path) > 0 /\ path[1] = c_tilde
    THEN HomeDir \o Tail(path)
    ELSE path

\* glob::Pattern::matches on one component: * matches any name
MatchComp(pc_, comp) == pc_ = c_star \/ pc_ = comp

MatchPath(pattern, path) ==
    /\ Len(pattern) = Len(path)
    /\ \A i \in 1..Len(path) : MatchComp(pattern[i], path[i])

\* glob::glob: a PatternError for a malformed pattern, else the existing
\* paths that match, in alphabetical order
glob(pattern, fs) ==
    IF \E i \in 1..Len(pattern) : pattern[i] = c_open
    THEN [ok |-> FALSE, val |-> <<>>]
    ELSE [ok |-> TRUE,
          val |-> SelectSeq(FileOrder,
                            LAMBDA f : f \in fs /\ MatchPath(pattern, f))]

(***************************************************************************)
(* generate_expanded_entries (entry.rs)                                    *)
(***************************************************************************)
RECURSIVE push_new_paths_all(_, _, _, _)
push_new_paths_all(entry, paths, res, seen_paths) ==
    IF paths = <<>>
    THEN [res |-> res, seen |-> seen_paths]
    ELSE push_new_paths_all(entry, Tail(paths),
                            Append(res, with_path(entry, Head(paths))),
                            seen_paths \cup {Head(paths)})

RECURSIVE push_new_paths_front(_, _, _, _)
push_new_paths_front(entry, paths, res, seen_paths) ==
    IF paths = <<>>
    THEN [res |-> res, seen |-> seen_paths]
    ELSE IF Head(paths) \notin seen_paths
         THEN push_new_paths_front(entry, Tail(paths),
                                   <<with_path(entry, Head(paths))>> \o res,
                                   seen_paths \cup {Head(paths)})
         ELSE push_new_paths_front(entry, Tail(paths), res, seen_paths)

RECURSIVE push_new_paths(_, _, _, _)
\* the inner loop: every match not seen before is pushed with the entry's
\* variant and layout
push_new_paths(entry, paths, res, seen_paths) ==
    IF paths = <<>>
    THEN [res |-> res, seen |-> seen_paths]
    ELSE IF Head(paths) \notin seen_paths
         THEN push_new_paths(entry, Tail(paths),
                             Append(res, with_path(entry, Head(paths))),
                             seen_paths \cup {Head(paths)})
         ELSE push_new_paths(entry, Tail(paths), res, seen_paths)

RECURSIVE generate_loop(_, _, _, _)
generate_loop(es, fs, res, seen_paths) ==
    IF es = <<>>
    THEN [ok |-> TRUE, val |-> res]
    ELSE LET entry == Head(es)
             path == to_str(get_path(entry))
         IN  IF ~path.some
             THEN [ok |-> FALSE, val |-> <<>>]
             ELSE LET paths == glob(path.val, fs)
                  IN  IF ~paths.ok
                      THEN [ok |-> FALSE, val |-> <<>>]
                      ELSE LET r == push_new_paths(entry, paths.val, res, seen_paths)
                           IN  generate_loop(Tail(es), fs, r.res, r.seen)

generate_expanded_entries(es, fs) == generate_loop(es, fs, <<>>, {})

(***************************************************************************)
(* send_expanded_entries (main.rs): the thread that feeds the picker       *)
(***************************************************************************)
RECURSIVE send_new_paths(_, _, _, _)
send_new_paths(entry, paths, sent, seen_paths) ==
    IF paths = <<>>
    THEN [sent |-> sent, seen |-> seen_paths]
    ELSE IF Head(paths) \notin seen_paths
         THEN send_new_paths(entry, Tail(paths),
                             Append(sent, with_path(entry, Head(paths))),
                             seen_paths \cup {Head(paths)})
         ELSE send_new_paths(entry, Tail(paths), sent, seen_paths)

RECURSIVE send_loop(_, _, _, _)
\* an invalid path or pattern ends the process with status 1; what was sent
\* before stays sent
send_loop(es, fs, sent, seen_paths) ==
    IF es = <<>>
    THEN [exit |-> "ok", sent |-> sent]
    ELSE LET entry == Head(es)
             path == to_str(get_path(entry))
         IN  IF ~path.some
             THEN [exit |-> "exit1", sent |-> sent]
             ELSE LET paths == glob(path.val, fs)
                  IN  IF ~paths.ok
                      THEN [exit |-> "exit1", sent |-> sent]
                      ELSE LET r == send_new_paths(entry, paths.val, sent, seen_paths)
                           IN  send_loop(Tail(es), fs, r.sent, r.seen)

send_expanded_entries(es, fs) == send_loop(es, fs, <<>>, {})

(***************************************************************************)
(* The commands of main that read and write the stored list                *)
(***************************************************************************)
None == [some |-> FALSE, val |-> <<>>]
Some(v) == [some |-> TRUE, val |-> v]

S_dev == <<"d", "e", "v">>

Layouts == {None, Some(S_dev)}

\* the paths given on the command line
AddPaths ==
    { <<c_p, c_star>>, <<c_p, c_a>>, <<c_p, c_b>>, <<c_tilde, c_a>>,
      <<c_p, c_open>>, <<c_p, c_raw>> }

NoArgs(op) == [op |-> op, path |-> <<>>, layout |-> None, prepend |-> FALSE]

NoResult == [ok |-> TRUE, val |-> <<>>]

push_end(es, new_entry, prepend) == Append(es, new_entry)

\* Cli::Add: push_front with --prepend, push_back without
push(es, new_entry, prepend) ==
    IF prepend THEN <<new_entry>> \o es ELSE Append(es, new_entry)

Add(path, layout, prepend) ==
    /\ Len(entries) < MaxEntries
    /\ last' = [op |-> "add", path |-> path, layout |-> layout, prepend |-> prepend]
    /\ picker' = <<>>
    /\ result' = NoResult
    /\ IF ~to_str(path).some
       THEN /\ exit' = "err"
            /\ entries' = entries
       ELSE LET expanded == tilde(to_str(path).val)
                new_entry == IF layout.some
                             THEN PathWithlayout(expanded, layout.val)
                             ELSE JustPath(expanded)
            IN  /\ entries' = push(entries, new_entry, prepend)
                /\ exit' = "ok"
    /\ UNCHANGED <<exists, openVars>>

\* Cli::Remove { path: Some(path) }
RemovePath(path) ==
    /\ entries' = SelectSeq(entries, LAMBDA e : get_path(e) # path)
    /\ last' = [NoArgs("remove") EXCEPT !.path = path]
    /\ picker' = <<>>
    /\ result' = NoResult
    /\ exit' = "ok"
    /\ UNCHANGED <<exists, openVars>>

\* Cli::Remove { path: None }: the entries picked in the picker are dropped
RemovePicked(picked) ==
    /\ entries # <<>>
    /\ entries' = SelectSeq(entries, LAMBDA e : e \notin picked)
    /\ last' = NoArgs("remove-picked")
    /\ picker' = <<>>
    /\ result' = NoResult
    /\ exit' = "ok"
    /\ UNCHANGED <<exists, openVars>>

\* Cli::Remove { path: None }, the picker aborted
RemoveAbort ==
    /\ last' = NoArgs("remove-picked")
    /\ picker' = <<>>
    /\ result' = NoResult
    /\ exit' = "exit1"
    /\ UNCHANGED <<entries, exists, openVars>>

\* Cli::List
List ==
    /\ last' = NoArgs("list")
    /\ picker' = <<>>
    /\ result' = NoResult
    /\ exit' = "ok"
    /\ UNCHANGED <<entries, exists, openVars>>

\* Cli::Open, up to the picker: the stored list is expanded into the picker
OpenExpand ==
    /\ LET r == send_expanded_entries(entries, exists)
       IN  /\ picker' = r.sent
           /\ exit' = r.exit
    /\ last' = NoArgs("open")
    /\ result' = NoResult
    /\ UNCHANGED <<entries, exists, openVars>>

\* generate_expanded_entries applied to the stored list
Generate ==
    /\ result' = generate_expanded_entries(entries, exists)
    /\ last' = NoArgs("generate")
    /\ picker' = <<>>
    /\ exit' = IF result'.ok THEN "ok" ELSE "err"
    /\ UNCHANGED <<entries, exists, openVars>>

NoEntry == JustPath(<<>>)

NoCommand == [prog |-> "", cwd |-> <<>>, args |-> <<>>]

OpenIdle ==
    /\ selected = NoEntry
    /\ listing = <<>>
    /\ stdout = <<>>
    /\ sessions = <<>>
    /\ command = NoCommand
    /\ cmds = <<>>
    /\ pc = "idle"

\* the data file is created holding "[]"
Init ==
    /\ entries = <<>>
    /\ exists \in SUBSET Files
    /\ last = NoArgs("none")
    /\ picker = <<>>
    /\ result = NoResult
    /\ exit = "ok"
    /\ OpenIdle

Next ==
    \/ \E path \in AddPaths, layout \in Layouts, prepend \in BOOLEAN :
          Add(path, layout, prepend)
    \/ \E e \in Range(entries) : RemovePath(get_path(e))
    \/ \E picked \in SUBSET Range(entries) : RemovePicked(picked)
    \/ RemoveAbort
    \/ List
    \/ OpenExpand
    \/ Generate

Spec == Init /\ [][Next]_vars

(***************************************************************************)
(* Text of the session listing                                             *)
(***************************************************************************)
AlnumChars ==
    { "a", "b", "c", "d", "e", "f", "g", "h", "i", "j", "k", "l", "m",
      "n", "o", "p", "q", "r", "s", "t", "u", "v", "w", "x", "y", "z",
      "A", "B", "C", "D", "E", "F", "G", "H", "I", "J", "K", "L", "M",
      "N", "O", "P", "Q", "R", "S", "T", "U", "V", "W", "X", "Y", "Z",
      "0", "1", "2", "3", "4", "5", "6", "7", "8", "9" }

SpaceChars == {" ", "\t"}
MultispaceChars == {" ", "\t", "\r", "\n"}

S_exited ==
    << "E", "X", "I", "T", "E", "D", " ", "-", " ", "a", "t", "t", "a", "c",
       "h", " ", "t", "o", " ", "r", "e", "s", "u", "r", "r", "e", "c", "t" >>
S_current == <<"c", "u", "r", "r", "e", "n", "t">>

\* the character at offset i (1-based), "" at the end of the input
At(input, i) == IF i <= Len(input) THEN input[i] ELSE ""

RECURSIVE take_while(_, _, _)
\* the first offset at or after i whose character is not in set
take_while(input, i, set) ==
    IF i <= Len(input) /\ input[i] \in set
    THEN take_while(input, i + 1, set)
    ELSE i

RECURSIVE Join(_)
Join(texts) == IF texts = <<>> THEN <<>> ELSE Head(texts) \o Join(Tail(texts))

(***************************************************************************)
(* winnow's parsers: each takes the input and an offset and returns        *)
(* [ok, pos, val]; a parser that failed (Backtrack) leaves pos where it    *)
(* started                                                                 *)
(***************************************************************************)
\* the element of a one-element set; The({F(x) : x \in {e}}) is F of the
\* value of e
The(S) == CHOOSE y \in S : TRUE

alphanumeric1(input, i) ==
    The({ [ok |-> e > i, pos |-> e, val |-> SubSeq(input, i, e - 1)]
          : e \in {take_while(input, i, AlnumChars)} })

multispace1(input, i) ==
    The({ [ok |-> e > i, pos |-> e, val |-> SubSeq(input, i, e - 1)]
          : e \in {take_while(input, i, MultispaceChars)} })

space0(input, i) ==
    The({ [ok |-> TRUE, pos |-> e, val |-> SubSeq(input, i, e - 1)]
          : e \in {take_while(input, i, SpaceChars)} })

literal(input, i, text) ==
    IF i + Len(text) - 1 <= Len(input) /\ SubSeq(input, i, i + Len(text) - 1) = text
    THEN [ok |-> TRUE, pos |-> i + Len(text), val |-> text]
    ELSE [ok |-> FALSE, pos |-> i, val |-> <<>>]

line_ending(input, i) ==
    IF literal(input, i, <<"\n">>).ok
    THEN literal(input, i, <<"\n">>)
    ELSE literal(input, i, <<"\r", "\n">>)

(***************************************************************************)
(* parse_zellij_ls (session.rs / main.rs)                                  *)
(***************************************************************************)
\* alt((alphanumeric1, literal("-"), literal("_")))
name_part(input, i) ==
    The({ IF a.ok THEN a
          ELSE IF literal(input, i, <<"-">>).ok THEN literal(input, i, <<"-">>)
          ELSE literal(input, i, <<"_">>)
          : a \in {alphanumeric1(input, i)} })

RECURSIVE name_parts(_, _, _)
\* repeat(1.., ...): the parts collected until one fails
name_parts(input, i, acc) ==
    The({ IF r.ok
          THEN name_parts(input, r.pos, Append(acc, r.val))
          ELSE [pos |-> i, val |-> acc]
          : r \in {name_part(input, i)} })

session_name_first(input, i) ==
    The({ IF r.val = <<>>
          THEN [ok |-> FALSE, pos |-> i, val |-> <<>>]
          ELSE [ok |-> TRUE, pos |-> r.pos, val |-> Head(r.val)]
          : r \in {name_parts(input, i, <<>>)} })

\* repeat(1.., ...).map(|text| text.join(""))
session_name(input, i) ==
    The({ IF r.val = <<>>
          THEN [ok |-> FALSE, pos |-> i, val |-> <<>>]
          ELSE [ok |-> TRUE, pos |-> r.pos, val |-> Join(r.val)]
          : r \in {name_parts(input, i, <<>>)} })

\* alt(("EXITED - attach to resurrect", "current", empty))
status(input, i) ==
    IF literal(input, i, S_exited).ok
    THEN [ok |-> TRUE, pos |-> i + Len(S_exited), val |-> "Exited"]
    ELSE IF literal(input, i, S_current).ok
    THEN [ok |-> TRUE, pos |-> i + Len(S_current), val |-> "Else"]
    ELSE [ok |-> TRUE, pos |-> i, val |-> "Else"]

NoStatus == [some |-> FALSE, val |-> "Else"]

\* opt(delimited('(', status, ')'))
opt_status(input, i) ==
    IF At(input, i) # "("
    THEN [ok |-> TRUE, pos |-> i, val |-> NoStatus]
    ELSE The({ IF At(input, st.pos) = ")"
               THEN [ok |-> TRUE, pos |-> st.pos + 1,
                     val |-> [some |-> TRUE, val |-> st.val]]
               ELSE [ok |-> TRUE, pos |-> i, val |-> NoStatus]
               : st \in {status(input, i + 1)} })

\* alt((alphanumeric1, multispace1))
dimension_part(input, i) ==
    The({ IF a.ok THEN a ELSE multispace1(input, i)
          : a \in {alphanumeric1(input, i)} })

RECURSIVE dimension_parts(_, _)
\* repeat(.., ...): the offset after the last part
dimension_parts(input, i) ==
    The({ IF r.ok THEN dimension_parts(input, r.pos) ELSE i
          : r \in {dimension_part(input, i)} })

\* delimited('[', repeat(.., alt((alphanumeric1, multispace1))), ']')
dimensions(input, i) ==
    IF At(input, i) # "["
    THEN [ok |-> FALSE, pos |-> i]
    ELSE The({ IF At(input, e) = "]"
               THEN [ok |-> TRUE, pos |-> e + 1]
               ELSE [ok |-> FALSE, pos |-> i]
               : e \in {dimension_parts(input, i + 1)} })

exited_if_status(opt) == opt.some

\* opt_status.map(|status| status == Status::Exited).unwrap_or(false)
exited_of(opt) == IF opt.some THEN opt.val = "Exited" ELSE FALSE

NoSession == [name |-> <<>>, exited |-> FALSE]

\* opt(delimited('(', status, ')')) and the map to a ZellijSession
entry_status(input, i, name) ==
    The({ [ok |-> TRUE, pos |-> st.pos,
           val |-> [name |-> name, exited |-> exited_of(st.val)]]
          : st \in {opt_status(input, i)} })

\* '[' .. ']', space0 and the rest of the entry
entry_dimensions(input, i, name) ==
    The({ IF ~dims.ok
          THEN [ok |-> FALSE, pos |-> i, val |-> NoSession]
          ELSE The({ entry_status(input, j, name) : j \in {space0(input, dims.pos).pos} })
          : dims \in {dimensions(input, i)} })

\* (session_name, ' ', delimited(..), space0, opt(..)).map(ZellijSession {..})
session_entry(input, i) ==
    The({ IF ~name.ok \/ At(input, name.pos) # " "
          THEN [ok |-> FALSE, pos |-> i, val |-> NoSession]
          ELSE The({ IF e.ok THEN e ELSE [e EXCEPT !.pos = i]
                     : e \in {entry_dimensions(input, name.pos + 1, name.val)} })
          : name \in {session_name(input, i)} })

\* the element after a separator; failing, the separator is given back
separated_next(input, i, sep) ==
    IF ~sep.ok
    THEN [ok |-> FALSE, pos |-> i, val |-> NoSession]
    ELSE The({ IF el.ok THEN el ELSE [el EXCEPT !.pos = i]
               : el \in {session_entry(input, sep.pos)} })

RECURSIVE separated_rest(_, _, _)
\* separated(.., session_entry, line_ending) after its first element
separated_rest(input, i, acc) ==
    The({ IF ~el.ok
          THEN [pos |-> i, val |-> acc]
          ELSE separated_rest(input, el.pos, Append(acc, el.val))
          : el \in {separated_next(input, i, line_ending(input, i))} })

separated(input, i) ==
    The({ IF ~el.ok
          THEN [pos |-> i, val |-> <<>>]
          ELSE separated_rest(input, el.pos, <<el.val>>)
          : el \in {session_entry(input, i)} })

\* (separated(..), opt(line_ending)).map(|res| res.0)
parse_zellij_ls(input, i) ==
    The({ [ok |-> TRUE, pos |-> line_ending(input, list.pos).pos, val |-> list.val]
          : list \in {separated(input, i)} })

parse_prefix(input) ==
    The({ [ok |-> r.ok, val |-> r.val, offset |-> r.pos - 1]
          : r \in {parse_zellij_ls(input, 1)} })

\* Parser::parse: the parser, then end of input; an error carries the offset
parse(input) ==
    The({ IF r.ok /\ r.pos = Len(input) + 1
          THEN [ok |-> TRUE, val |-> r.val, offset |-> r.pos - 1]
          ELSE [ok |-> FALSE, val |-> <<>>, offset |-> r.pos - 1]
          : r \in {parse_zellij_ls(input, 1)} })

\* String::from_utf8
from_utf8(bytes) ==
    [ok |-> \A i \in 1..Len(bytes) : bytes[i] # "0xFF", val |-> bytes]

(***************************************************************************)
(* The listings `zellij ls -n` prints: each line is a name, a separator,   *)
(* the bracketed part, a gap, a status, a tail and a line terminator       *)
(***************************************************************************)
S_Work == <<"W", "o", "r", "k">>
S_a_b == <<"a", "-", "b">>
S_badname == <<"b", "a", "d", "!", "n", "a", "m", "e">>
S_80x24 == <<"[", "8", "0", "x", "2", "4", "]">>
St_none == <<>>
St_current == <<"(">> \o S_current \o <<")">>
St_exited == <<"(">> \o S_exited \o <<")">>

Line(name, st) ==
    [name |-> name, sep |-> <<" ">>, dims |-> S_80x24,
     gap |-> IF st = <<>> THEN <<>> ELSE <<" ">>,
     status |-> st, tail |-> <<>>, term |-> <<"\n">>]

\* well-formed lines of sessions work, Work and a in every status
PlainLines == {Line(n, st) : n \in {c_work, S_Work, c_a}, st \in {St_none, St_current, St_exited}}

\* lines that differ from a plain one in one part
OddLines ==
    { [Line(S_badname, St_none) EXCEPT !.dims = <<"[", "1", "x", "1", "]">>],
      Line(<<>>, St_none),
      Line(S_a_b, St_none),
      [Line(c_work, St_none) EXCEPT !.sep = <<>>],
      [Line(c_work, St_none) EXCEPT !.dims = <<"[", "]">>],
      [Line(c_work, St_none) EXCEPT !.dims = <<"[", "1", "\n", "1", "]">>],
      [Line(c_work, St_none) EXCEPT !.dims = <<"[", "8", "-", "0", "]">>],
      [Line(c_work, St_none) EXCEPT !.dims = <<"[", "8", "0", "x", "2", "4">>],
      [Line(c_work, St_none) EXCEPT !.dims = <<"[", "0xFF", "]">>],
      [Line(c_work, St_current) EXCEPT !.gap = <<>>],
      Line(c_work, <<"(", ")">>),
      Line(c_work, <<"(", "b", "o", "g", "u", "s", ")">>),
      Line(c_work, <<"(">> \o S_current),
      [Line(c_work, St_exited) EXCEPT !.tail = <<" ">>],
      [Line(c_work, St_exited) EXCEPT !.term = <<>>],
      [Line(c_work, St_exited) EXCEPT !.term = <<"\r", "\n">>],
      [Line(c_work, St_exited) EXCEPT !.term = <<"\n", "\n">>] }

LineSet == PlainLines \cup OddLines

Listings == UNION {[1..n -> LineSet] : n \in 0..MaxLines}

EntryText(line) ==
    line.name \o line.sep \o line.dims \o line.gap \o line.status \o line.tail

RECURSIVE Render(_)
Render(l) ==
    IF l = <<>> THEN <<>> ELSE EntryText(Head(l)) \o Head(l).term \o Render(Tail(l))

(***************************************************************************)
(* Cli::Open after the picker returned (main.rs)                           *)
(***************************************************************************)
A_cli == <<"c", "l", "i">>
A_spawn == <<"s", "p", "a", "w", "n">>
A_cwd == <<"-", "-", "c", "w", "d">>
A_zellij == <<"z", "e", "l", "l", "i", "j">>
A_l == <<"-", "l">>
A_s == <<"-", "s">>
A_ls == <<"l", "s">>
A_n == <<"-", "n">>
A_delete == <<"d", "e", "l", "e", "t", "e", "-", "s", "e", "s", "s", "i", "o", "n">>
DEFAULT_LAYOUT == <<"d", "e", "v", "-", "d", "e", "f", "a", "u", "l", "t">>

RECURSIVE PathText(_)
\* the path as one OsString
PathText(path) ==
    IF path = <<>> THEN <<>>
    ELSE IF Len(path) = 1 THEN path[1]
    ELSE path[1] \o <<"/">> \o PathText(Tail(path))

\* Path::file_name: None when the path ends in ..
file_name(path) ==
    IF path = <<>> \/ path[Len(path)] = c_dotdot
    THEN None
    ELSE Some(path[Len(path)])

\* the wezterm command as built before the sessions are looked at
spawn_command(entry) ==
    [prog |-> "wezterm", cwd |-> PathText(entry.path),
     args |-> << A_cli, A_spawn, A_cwd, PathText(entry.path), A_zellij, A_l,
                 IF entry.kind = "JustPath" THEN DEFAULT_LAYOUT ELSE entry.layout >>]

RECURSIVE find_last(_, _)
find_last(ss, name) ==
    IF ss = <<>> THEN [some |-> FALSE, val |-> NoSession]
    ELSE IF ss[Len(ss)].name = name THEN [some |-> TRUE, val |-> ss[Len(ss)]]
    ELSE find_last(SubSeq(ss, 1, Len(ss) - 1), name)

Lower(c) == IF c = "W" THEN "w" ELSE c
LowerText(t) == [i \in 1..Len(t) |-> Lower(t[i])]

RECURSIVE find_ignore_case(_, _)
find_ignore_case(ss, name) ==
    IF ss = <<>> THEN [some |-> FALSE, val |-> NoSession]
    ELSE IF LowerText(Head(ss).name) = LowerText(name) THEN [some |-> TRUE, val |-> Head(ss)]
    ELSE find_ignore_case(Tail(ss), name)

RECURSIVE find(_, _)
\* sessions.into_iter().find(|session| session.name == name): the first one
find(ss, name) ==
    IF ss = <<>> THEN [some |-> FALSE, val |-> NoSession]
    ELSE IF Head(ss).name = name THEN [some |-> TRUE, val |-> Head(ss)]
    ELSE find(Tail(ss), name)

with_session(cmd, name) == [cmd EXCEPT !.args = @ \o <<A_s, name>>]

resolve_last(ss, name, cmd) ==
    LET existing_sesion == find_last(ss, name)
    IN  IF existing_sesion.some
        THEN IF existing_sesion.val.exited
             THEN [delete |-> TRUE, command |-> with_session(cmd, name)]
             ELSE [delete |-> FALSE, command |-> cmd]
        ELSE [delete |-> FALSE, command |-> with_session(cmd, name)]

\* what main decides from the sessions: whether delete-session is run, and
\* the command to spawn
resolve(ss, name, cmd) ==
    LET existing_sesion == find(ss, name)
    IN  IF existing_sesion.some
        THEN IF existing_sesion.val.exited
             THEN [delete |-> TRUE, command |-> with_session(cmd, name)]
             ELSE [delete |-> FALSE, command |-> cmd]
        ELSE [delete |-> FALSE, command |-> with_session(cmd, name)]

SelectedSet ==
    { JustPath(<<c_p, c_work>>), PathWithlayout(<<c_p, c_work>>, S_dev),
      JustPath(<<c_p, c_dotdot>>) }

\* the picker returned an entry and the command is built
InitSession ==
    /\ selected \in SelectedSet
    /\ command = spawn_command(selected)
    /\ listing = <<>>
    /\ stdout = <<>>
    /\ sessions = <<>>
    /\ cmds = <<>>
    /\ pc = "picked"
    /\ entries = <<>>
    /\ exists = {}
    /\ last = NoArgs("open")
    /\ picker = <<selected>>
    /\ result = NoResult
    /\ exit = "ok"

\* `zellij ls -n` is run and its output parsed; an error ends main
ListSessions(l) ==
    /\ pc = "picked"
    /\ file_name(selected.path).some
    /\ listing' = l
    /\ cmds' = <<[prog |-> "zellij", cwd |-> <<>>, args |-> <<A_ls, A_n>>]>>
    /\ \E out \in {Render(l)} :
          /\ stdout' = out
          /\ IF ~from_utf8(out).ok
             THEN /\ sessions' = <<>>
                  /\ pc' = "failed"
             ELSE \E r \in {parse(from_utf8(out).val)} :
                     /\ sessions' = r.val
                     /\ pc' = IF r.ok THEN "resolve" ELSE "failed"
    /\ exit' = IF pc' = "failed" THEN "err" ELSE exit
    /\ UNCHANGED <<selected, command, entries, exists, last, picker, result>>

\* the path has no final component: no session is named
NoFileName ==
    /\ pc = "picked"
    /\ ~file_name(selected.path).some
    /\ pc' = "spawn"
    /\ UNCHANGED <<selected, listing, stdout, sessions, command, cmds, storeVars>>

\* the session of the path's name is looked up; an exited one is deleted
Resolve ==
    /\ pc = "resolve"
    /\ LET name == file_name(selected.path).val
           d == resolve(sessions, name, command)
       IN  /\ command' = d.command
           /\ cmds' = IF d.delete
                      THEN Append(cmds, [prog |-> "zellij", cwd |-> <<>>,
                                         args |-> <<A_delete, name>>])
                      ELSE cmds
    /\ pc' = "spawn"
    /\ UNCHANGED <<selected, listing, stdout, sessions, storeVars>>

\* command.spawn()?.wait()?
Spawn ==
    /\ pc = "spawn"
    /\ cmds' = Append(cmds, command)
    /\ pc' = "done"
    /\ UNCHANGED <<selected, listing, stdout, sessions, command, storeVars>>

NextSession ==
    \/ \E l \in Listings : ListSessions(l)
    \/ NoFileName
    \/ Resolve
    \/ Spawn

SpecSession == InitSession /\ [][NextSession]_vars

(***************************************************************************)
(* Vocabulary of the properties: expansion                                 *)
(***************************************************************************)
\* the concrete paths the pattern of an entry matches
Matches(e, fs) ==
    IF to_str(e.path).some /\ glob(e.path, fs).ok
    THEN Range(glob(e.path, fs).val)
    ELSE {}

\* the index of the first entry of es that matches path, 0 if none does
FirstMatch(es, fs, path) ==
    IF \E i \in 1..Len(es) : path \in Matches(es[i], fs)
    THEN CHOOSE i \in 1..Len(es) :
            /\ path \in Matches(es[i], fs)
            /\ \A j \in 1..(i - 1) : path \notin Matches(es[j], fs)
    ELSE 0

NoPathTwice(out) ==
    \A i, j \in 1..Len(out) : i # j => out[i].path # out[j].path

FirstWins(out, es, fs) ==
    \A k \in 1..Len(out) :
        LET i == FirstMatch(es, fs, out[k].path)
        IN  /\ i > 0
            /\ out[k].kind = es[i].kind
            /\ out[k].layout = es[i].layout

SourceOrder(out, es, fs) ==
    \A k, l \in 1..Len(out) :
        k < l => FirstMatch(es, fs, out[k].path) <= FirstMatch(es, fs, out[l].path)

\* a list of existing, pairwise different paths without glob characters
ConcreteList(es, fs) ==
    /\ \A i \in 1..Len(es) : es[i].path \in fs
    /\ NoPathTwice(es)

\* every path the first stored entry matches is emitted as that entry's
HeadWins(es, fs) ==
    es # <<>> =>
        \A path \in Matches(es[1], fs) :
            /\ \E k \in 1..Len(send_expanded_entries(es, fs).sent) :
                  send_expanded_entries(es, fs).sent[k] = [es[1] EXCEPT !.path = path]
            /\ generate_expanded_entries(es, fs).ok =>
                  \E k \in 1..Len(generate_expanded_entries(es, fs).val) :
                     generate_expanded_entries(es, fs).val[k] = [es[1] EXCEPT !.path = path]

(***************************************************************************)
(* Properties of the expansion and of the stored list (Spec)               *)
(***************************************************************************)
\* C1: an expansion run emits each concrete path at most once over all
\* source entries, with the variant and layout of the first stored entry
\* whose pattern matches it, also when a later entry has another layout.
DedupFirstWins ==
    /\ NoPathTwice(picker) /\ FirstWins(picker, entries, exists)
    /\ NoPathTwice(result.val) /\ FirstWins(result.val, entries, exists)

DedupFirstWinsWitness ==
    /\ last.op = "open" /\ exit = "ok"
    /\ Len(entries) >= 2 /\ Len(picker) = 2
    /\ entries[1].layout # entries[2].layout
    /\ Matches(entries[1], exists) \cap Matches(entries[2], exists) # {}
    /\ Matches(entries[2], exists) \ Matches(entries[1], exists) # {}

\* C3: when an entry's path is no UTF-8 or no valid pattern the expansion
\* fails and nothing expanded from the entries before it is returned or
\* handed to the picker.
NoPartialResults ==
    /\ (last.op = "generate" /\ ~result.ok) => result.val = <<>>
    /\ (last.op = "open" /\ exit = "exit1") => picker = <<>>

\* C7: expanding a duplicate-free list of concrete paths that is an
\* expansion result yields that list, in its order; and the output follows
\* the stored order of the source entries.
ExpansionKeepsOrder ==
    /\ (last.op = "generate" /\ result.ok) =>
          /\ generate_expanded_entries(result.val, exists) = result
          /\ ConcreteList(entries, exists) => result.val = entries
    /\ (last.op = "open" /\ exit = "ok") =>
          /\ send_expanded_entries(picker, exists).sent = picker
          /\ ConcreteList(entries, exists) => picker = entries
    /\ SourceOrder(picker, entries, exists)
    /\ SourceOrder(result.val, entries, exists)

ExpansionKeepsOrderWitness ==
    /\ last.op = "generate" /\ result.ok
    /\ Len(entries) = 2
    /\ entries[1].path = <<c_p, c_b>> /\ entries[2].path = <<c_p, c_a>>
    /\ entries[1].layout # entries[2].layout
    /\ result.val = entries

\* C10: add --prepend puts the entry at the start of the stored list and
\* leaves the entries stored before as they were and in their order (without
\* the flag it goes to the end); an expansion attributes every path the first
\* stored entry matches to that entry, not to an entry stored behind it.
PrependFirst ==
    [][ /\ (last'.op = "open" => HeadWins(entries', exists'))
        /\ (last'.op = "add" /\ exit' = "ok") =>
              /\ Len(entries') = Len(entries) + 1
              /\ IF last'.prepend
                 THEN /\ Tail(entries') = entries
                      /\ (entries'[1].kind = "PathWithlayout") = last'.layout.some
                      /\ entries'[1].layout = last'.layout.val
                      /\ last'.path[1] # c_tilde => entries'[1].path = last'.path
                      /\ HeadWins(entries', exists')
                 ELSE /\ SubSeq(entries', 1, Len(entries)) = entries
                      /\ entries'[Len(entries')].layout = last'.layout.val ]_vars

PrependFirstWitness ==
    /\ last.op = "add" /\ last.prepend /\ exit = "ok"
    /\ Len(entries) >= 2
    /\ entries[1].layout # entries[2].layout
    /\ entries[1].path = <<c_p, c_a>>
    /\ entries[2].path = <<c_p, c_star>>
    /\ <<c_p, c_a>> \in exists

(***************************************************************************)
(* Vocabulary of the properties: the listing and the launch                *)
(***************************************************************************)
NameChars == AlnumChars \cup {"-", "_"}

AllIn(text, set) == \A i \in 1..Len(text) : text[i] \in set

\* the line is a session-entry of the listing's grammar
EntryOK(line) ==
    /\ line.name # <<>> /\ AllIn(line.name, NameChars)
    /\ line.sep = <<" ">>
    /\ Len(line.dims) >= 2
    /\ line.dims[1] = "[" /\ line.dims[Len(line.dims)] = "]"
    /\ AllIn(SubSeq(line.dims, 2, Len(line.dims) - 1), AlnumChars \cup MultispaceChars)
    /\ AllIn(line.gap, SpaceChars)
    /\ line.status \in {St_none, <<"(", ")">>, St_current, St_exited}
    /\ line.tail = <<>>

LineEndings == {<<"\n">>, <<"\r", "\n">>}

\* session entries separated by one line ending each, at most one at the end
Conformant(l) ==
    \A i \in 1..Len(l) :
        /\ EntryOK(l[i])
        /\ IF i < Len(l)
           THEN l[i].term \in LineEndings
           ELSE l[i].term \in LineEndings \cup {<<>>}

\* the text before the first space
BeforeSpace(text) ==
    IF \E i \in 1..Len(text) : text[i] = " "
    THEN SubSeq(text, 1,
                (CHOOSE i \in 1..Len(text) :
                    text[i] = " " /\ \A j \in 1..(i - 1) : text[j] # " ") - 1)
    ELSE text

Named == file_name(selected.path).some
Listed == Named /\ pc # "picked"
Parsed == Named /\ pc \in {"resolve", "spawn", "done"}

desired_name == file_name(selected.path).val

\* the command creates the session called name
HasSession(cmd, name) ==
    \E k \in 1..(Len(cmd.args) - 1) : cmd.args[k] = A_s /\ cmd.args[k + 1] = name

\* the command names the session in some argument
Targets(cmd, name) == \E k \in 1..Len(cmd.args) : cmd.args[k] = name

IsDelete(cmd, name) == cmd.prog = "zellij" /\ cmd.args = <<A_delete, name>>

Deleted == \E k \in 1..Len(cmds) : IsDelete(cmds[k], desired_name)

Launch == cmds[Len(cmds)]

\* the first record called desired_name, as a set of at most one index
FirstNamed ==
    {i \in 1..Len(sessions) :
        /\ sessions[i].name = desired_name
        /\ \A j \in 1..(i - 1) : sessions[j].name # desired_name}

(***************************************************************************)
(* Properties of the listing parser and of Open (SpecSession)              *)
(***************************************************************************)
\* C2: when a record called desired_name exists and is not exited, the launch
\* targets the existing session of that name, no delete-session is issued
\* and no session is created.
LiveSessionAttached ==
    (pc = "done" /\ Named
        /\ \E i \in 1..Len(sessions) :
              sessions[i].name = desired_name /\ ~sessions[i].exited)
    => /\ ~Deleted
       /\ ~HasSession(Launch, desired_name)
       /\ Targets(Launch, desired_name)

\* C4 as stated: when a record called desired_name exists and is exited,
\* delete-session is issued and then the session is created; delete-session
\* is not issued when a record of that name is not exited or none exists.
AnyExitedRecreates ==
    (pc = "done" /\ Named) =>
        /\ (\E i \in 1..Len(sessions) :
               sessions[i].name = desired_name /\ sessions[i].exited)
             => Deleted /\ HasSession(Launch, desired_name)
        /\ (\E i \in 1..Len(sessions) :
               sessions[i].name = desired_name /\ ~sessions[i].exited)
             => ~Deleted

\* C4, amended: when the first record called desired_name is exited,
\* delete-session for desired_name is issued first and only afterwards the
\* session of that name is created; in every other case no delete-session
\* is issued.
FirstExitedRecreates ==
    /\ \A k \in 1..Len(cmds) : cmds[k].prog = "wezterm" => k = Len(cmds)
    /\ Deleted => Parsed /\ \E i \in FirstNamed : sessions[i].exited
    /\ (pc = "done" /\ Named) =>
          IF \E i \in FirstNamed : sessions[i].exited
          THEN /\ Len(cmds) = 3
               /\ IsDelete(cmds[2], desired_name)
               /\ cmds[3].prog = "wezterm"
               /\ HasSession(cmds[3], desired_name)
          ELSE ~Deleted

FirstExitedRecreatesWitness ==
    /\ pc = "done" /\ Named /\ Deleted
    /\ Len(sessions) = 2
    /\ sessions[1].name = desired_name /\ sessions[1].exited
    /\ sessions[2].name = desired_name /\ ~sessions[2].exited

\* C5: a listing with a line that is no session entry fails the parse and
\* with it the resolution; a parse that succeeds consumed the whole input
\* but for one optional line ending at the end.
MalformedListingFails ==
    /\ (Listed /\ ~Conformant(listing)) =>
          /\ pc = "failed"
          /\ sessions = <<>>
          /\ Len(cmds) = 1
    /\ Parsed => parse_zellij_ls(stdout, 1).pos = Len(stdout) + 1

MalformedListingFailsWitness ==
    /\ pc = "failed"
    /\ Len(listing) = 2
    /\ EntryOK(listing[1]) /\ listing[1].term = <<"\n">>
    /\ listing[2].name = S_badname

\* C6 as stated: no two records of a parsed listing have the same name.
UniqueNames ==
    Parsed => \A i, j \in 1..Len(sessions) :
                 i # j => sessions[i].name # sessions[j].name

\* C6, amended: the parser keeps one record per line with the line's name,
\* so the names of the records are pairwise different exactly when the names
\* of the lines are.
UniqueNamesOfUniqueLines ==
    Parsed =>
        /\ Len(sessions) = Len(listing)
        /\ (\A i, j \in 1..Len(sessions) : i # j => sessions[i].name # sessions[j].name)
           <=> (\A i, j \in 1..Len(listing) : i # j => listing[i].name # listing[j].name)

UniqueNamesOfUniqueLinesWitness ==
    /\ Parsed
    /\ Len(sessions) = 2
    /\ sessions[1].name = c_a
    /\ sessions[2].name = S_a_b

\* C8: an accepted listing gives one record per session-entry line, in input
\* order, named by the text before the first space and exited exactly when
\* the line's status is "(EXITED - attach to resurrect)".
RecordPerLine ==
    Parsed =>
        /\ Len(sessions) = Len(listing)
        /\ \A i \in 1..Len(sessions) :
              /\ sessions[i].name = BeforeSpace(EntryText(listing[i]))
              /\ sessions[i].exited <=> (listing[i].status = St_exited)

RecordPerLineWitness ==
    /\ Parsed
    /\ Len(sessions) = 2
    /\ sessions[1].name = c_a /\ ~sessions[1].exited
    /\ listing[1].status = St_current
    /\ sessions[2].name = c_work /\ sessions[2].exited

\* C9: the launch creates the session desired_name without any
\* delete-session exactly when no record is called desired_name, compared
\* case-sensitively.
CreateIffAbsent ==
    (pc = "done" /\ Named) =>
        ((HasSession(Launch, desired_name) /\ ~Deleted)
         <=> (\A i \in 1..Len(sessions) : sessions[i].name # desired_name))

CreateIffAbsentWitness ==
    /\ pc = "done" /\ Named
    /\ Len(sessions) = 1
    /\ sessions[1].name = S_Work
    /\ desired_name = c_work
    /\ HasSession(Launch, desired_name)
    /\ ~Deleted

====
